---- MODULE Spec2Model ----
(* Isolation Forest (IsolationForest.cpp): tree growth, sampling, scoring  *)
(* and the background grow(jobs) threads that share the generator and the  *)
(* tree collection of one forest.                                          *)
EXTENDS Integers, Sequences, FiniteSets, TLC

(***************************************************************************)
(* Bounds of the model.                                                    *)
(***************************************************************************)
MaxTreeSize == 3
MaxForestSize == 2
MaxSeed == 1
MaxJobs == 2
NThreads == 2
MaxTrees == 3

Threads == 1..NThreads

(***************************************************************************)
(* Doubles.  NAN is the missing reading; every ordered comparison with a   *)
(* NAN operand is false (IEEE 754), isnan is the only test that sees it.   *)
(***************************************************************************)
NAN == -1
isnan(x) == x = NAN
LessEq(a, b) == (~isnan(a)) /\ (~isnan(b)) /\ a <= b

(***************************************************************************)
(* C strings are sequences of bytes (the terminating NUL left implicit).   *)
(***************************************************************************)
strlen(s) == Len(s)

RECURSIVE strcmp(_, _)
strcmp(a, b) ==
  IF a = <<>> /\ b = <<>> THEN 0
  ELSE IF a = <<>> THEN -1
  ELSE IF b = <<>> THEN 1
  ELSE IF Head(a) < Head(b) THEN -1
  ELSE IF Head(a) > Head(b) THEN 1
  ELSE strcmp(Tail(a), Tail(b))

(***************************************************************************)
(* The data source: num_data[attr][ob] and char_data[attr][ob], column     *)
(* major.  Indices are zero based in the program, so row a / column i of   *)
(* the program is element [a+1][i+1] here.                                 *)
(***************************************************************************)
DataSources ==
  << [num_data  |-> << <<NAN, 1, 2>> >>,
      char_data |-> << << <<2>>, <<1, 1>>, <<1>> >> >>],
     [num_data  |-> << <<2, NAN>> >>,
      char_data |-> << << <<1, 2>>, <<1, 1>> >> >>] >>

num_data(this) == DataSources[this.src].num_data
char_data(this) == DataSources[this.src].char_data
n_num_attrs(this) == Len(num_data(this))
n_char_attrs(this) == Len(char_data(this))
nObs(this) == Len(num_data(this)[1])
PyArray_GETPTR2(arr, a, i) == arr[a + 1][i + 1]
Observations(this) == 0..(nObs(this) - 1)

(***************************************************************************)
(* The generator.  std::mt19937_64 is a deterministic state machine: one   *)
(* call advances the state and returns a tempered word of it.  The model   *)
(* keeps that shape over a state space of RngModulus values.               *)
(***************************************************************************)
RngModulus == 8
GenStates == 0..(RngModulus - 1)
mt19937_64(seed) == seed % RngModulus
Advance(g) == (5 * g + 3) % RngModulus
Temper(g) == (g \div 2) + (RngModulus \div 2) * (g % 2)

\* std::uniform_int_distribution<size_t>(lo, hi)(gen): one call of gen.
uniform_int_distribution(lo, hi, g) ==
  [value |-> lo + (Temper(Advance(g)) % (hi - lo + 1)), gen |-> Advance(g)]

(***************************************************************************)
(* std::sample(first, last, back_inserter(out), n, gen): selection         *)
(* sampling over the population in order; min(n, population) elements are  *)
(* APPENDED to out, each population element at most once.                  *)
(***************************************************************************)
Min(a, b) == IF a <= b THEN a ELSE b

\* Binds the value of v once and hands it to Body (a local variable).
With(v, Body(_)) == CHOOSE r \in {Body(x) : x \in {v}} : TRUE

RECURSIVE SelectionSample(_, _, _, _, _)
SelectionSample(pop, pos, need, out, g) ==
  IF need = 0 \/ pos > Len(pop) THEN [out |-> out, gen |-> g]
  ELSE With(uniform_int_distribution(0, Len(pop) - pos, g), LAMBDA d :
         IF d.value < need
         THEN SelectionSample(pop, pos + 1, need - 1, Append(out, pop[pos]), d.gen)
         ELSE SelectionSample(pop, pos + 1, need, out, d.gen))

std_sample(pop, out, n, g) == SelectionSample(pop, 1, Min(n, Len(pop)), out, g)

\* std::vector<size_t> obs(nObs); std::iota(obs.begin(), obs.end(), 0)
iota(n) == [k \in 1..n |-> k - 1]

(***************************************************************************)
(* IsolationTree::Node(splitAttribute, splitValue, splitChar, isExNode,    *)
(* nObs) with its two owned children.                                      *)
(***************************************************************************)
nullptr == [isNull |-> TRUE]

Node(attr, val, chr, ex, n, l, r) ==
  [splitAttribute |-> attr, splitValue |-> val, splitChar |-> chr,
   isExNode |-> ex, nObs |-> n, lnode |-> l, rnode |-> r]

\* Variant of the test below with the height limit off by one.
IsExternalLate(this, n, height) == (n <= 1) \/ (height > this.maxTreeHeight)

\* growTree, line 16: the call produces an external node.
IsExternal(this, n, height) == (n <= 1) \/ (height >= this.maxTreeHeight)

\* growTree, lines 37-50: numeric partition rule, TRUE = pushed to lobs.
NumPushLeft(val, obsVal) ==
  IF isnan(val) THEN isnan(obsVal)
  ELSE isnan(obsVal) \/ LessEq(obsVal, val)

\* growTree, lines 66-74: textual partition rule, TRUE = pushed to lobs.
CharPushLeft(val, obsVal) ==
  IF strlen(obsVal) < strlen(val) THEN TRUE
  ELSE IF strlen(obsVal) > strlen(val) THEN FALSE
  ELSE strcmp(obsVal, val) <= 0

\* growTree, lines 28-78: the pivot read through the drawn sample index and
\* the two partitions of the sample, in sample order.
Split(this, sample, attr, pivot) ==
  IF attr < n_num_attrs(this)
  THEN With(PyArray_GETPTR2(num_data(this), attr, pivot), LAMBDA val :
         [splitValue |-> val, splitChar |-> nullptr,
          lobs |-> SelectSeq(sample, LAMBDA i :
                     NumPushLeft(val, PyArray_GETPTR2(num_data(this), attr, i))),
          robs |-> SelectSeq(sample, LAMBDA i :
                     ~NumPushLeft(val, PyArray_GETPTR2(num_data(this), attr, i)))])
  ELSE With(PyArray_GETPTR2(char_data(this), attr - n_num_attrs(this), pivot),
            LAMBDA val :
         [splitValue |-> NAN, splitChar |-> val,
          lobs |-> SelectSeq(sample, LAMBDA i :
                     CharPushLeft(val, PyArray_GETPTR2(char_data(this),
                                                       attr - n_num_attrs(this), i))),
          robs |-> SelectSeq(sample, LAMBDA i :
                     ~CharPushLeft(val, PyArray_GETPTR2(char_data(this),
                                                        attr - n_num_attrs(this), i)))])

RECURSIVE growTree(_, _, _, _)
growTree(this, sample, height, g) ==
  IF IsExternal(this, Len(sample), height)
  THEN [node |-> Node(-1, NAN, nullptr, TRUE, Len(sample), nullptr, nullptr),
        gen |-> g]
  ELSE
    \* attr = uniformDist(randomGen)
    With(uniform_int_distribution(0, n_num_attrs(this) + n_char_attrs(this) - 1, g),
         LAMBDA attr :
    \* sample[dist(randomGen)]
    With(uniform_int_distribution(0, Len(sample) - 1, attr.gen), LAMBDA d :
    With(Split(this, sample, attr.value, sample[d.value + 1]), LAMBDA s :
    \* growTree(lobs, node->lnode, height + 1)
    With(growTree(this, s.lobs, height + 1, d.gen), LAMBDA l :
    \* growTree(robs, node->rnode, height + 1)
    With(growTree(this, s.robs, height + 1, l.gen), LAMBDA r :
      [node |-> Node(attr.value, s.splitValue, s.splitChar, FALSE, Len(sample),
                     l.node, r.node),
       gen |-> r.gen])))))

(***************************************************************************)
(* averagePathLength(n) = 2*(ln(n-1) + EULER_GAMMA) - 2*(n-1)/n, in        *)
(* thousandths.  It is only evaluated on a leaf for n >= 2; as the         *)
(* normaliser of the score it is kept symbolic (see anomalyScore).         *)
(***************************************************************************)
AveragePathLengthTable ==
  << 154, 1207, 1852, 2327, 2707, 3024, 3296, 3536, 3749, 3941, 4117, 4278,
     4427, 4566, 4696, 4817, 4932, 5040, 5143, 5241, 5334, 5423, 5509, 5591 >>
averagePathLength(n) == AveragePathLengthTable[n - 1]

\* pathLength, lines 140-162: TRUE = the walk continues in node->lnode.
DescendsLeft(this, ob, node) ==
  IF node.splitAttribute < n_num_attrs(this)
  THEN LessEq(PyArray_GETPTR2(num_data(this), node.splitAttribute, ob),
              node.splitValue)
  ELSE LET val == PyArray_GETPTR2(char_data(this),
                                  node.splitAttribute - n_num_attrs(this), ob)
       IN IF strlen(val) < strlen(node.splitChar) THEN TRUE
          ELSE IF strlen(val) > strlen(node.splitChar) THEN FALSE
          ELSE strcmp(val, node.splitChar) <= 0

RECURSIVE pathLength(_, _, _, _)
pathLength(this, ob, node, length) ==
  IF node.isExNode
  THEN IF node.nObs <= 1 THEN 1000 * length
       ELSE 1000 * length + averagePathLength(node.nObs)
  ELSE IF DescendsLeft(this, ob, node)
       THEN pathLength(this, ob, node.lnode, length + 1)
       ELSE pathLength(this, ob, node.rnode, length + 1)

RECURSIVE SumPathLength(_, _, _)
SumPathLength(this, ob, k) ==
  IF k = 0 THEN 0
  ELSE SumPathLength(this, ob, k - 1) + pathLength(this, ob, this.trees[k].root, 0)

(***************************************************************************)
(* anomalyScore(ob) = 2 ^ (-(sum / divisor) / averagePathLength(treeSize)) *)
(* The value is kept as the operands the code combines: the sum of the     *)
(* path lengths, the number of terms summed, the divisor and the argument  *)
(* of the normaliser.  The code has no failure exit: outcome is "value".   *)
(***************************************************************************)
Divisor(this) == this.forestSize

anomalyScore(this, ob) ==
  [outcome |-> "value",
   ob      |-> ob,
   sum     |-> SumPathLength(this, ob, Len(this.trees)),
   terms   |-> Len(this.trees),
   divisor |-> Divisor(this),
   norm    |-> this.treeSize]

(***************************************************************************)
(* growForest(): forestSize iterations, each with a fresh sample vector.   *)
(***************************************************************************)
RECURSIVE growForestLoop(_, _)
growForestLoop(this, k) ==
  IF k >= this.forestSize THEN this
  ELSE With(std_sample(iota(nObs(this)), <<>>, this.treeSize, this.randomGen),
            LAMBDA s :
       With(growTree(this, s.out, 0, s.gen), LAMBDA t :
         growForestLoop([this EXCEPT !.randomGen = t.gen,
                                     !.trees = Append(@, [root |-> t.node])],
                        k + 1)))

growForest(this) == growForestLoop(this, 0)

(***************************************************************************)
(* The constructor, lines 84-102.                                          *)
(***************************************************************************)
RECURSIVE CeilLog2From(_, _)
CeilLog2From(n, h) == IF 2^h >= n THEN h ELSE CeilLog2From(n, h + 1)

\* ceil(log2((double)treeSize)); log2(0) is -infinity, whose conversion to
\* an integer is undefined: the stored height is then any of UndefinedHeights.
UndefinedHeights == {0, 1}
MaxTreeHeights(treeSize) ==
  IF treeSize = 0 THEN UndefinedHeights ELSE {CeilLog2From(treeSize, 0)}

IsolationForest(src, treeSize, forestSize, randomSeed, h) ==
  [src |-> src, treeSize |-> treeSize, forestSize |-> forestSize,
   randomSeed |-> randomSeed, maxTreeHeight |-> h,
   randomGen |-> mt19937_64(randomSeed), trees |-> <<>>]

Forests ==
  UNION { { IsolationForest(src, ts, fs, seed, h) : h \in MaxTreeHeights(ts) } :
            src \in 1..Len(DataSources), ts \in 0..MaxTreeSize,
            fs \in 0..MaxForestSize, seed \in 0..MaxSeed }

(***************************************************************************)
(* State.  forest is the IsolationForest object; mylock is its mutex (0 =  *)
(* free, else the holding thread).  Each thread started by grow(jobs) has  *)
(* a position pc, its captured jobs, its loop counter i, its sample        *)
(* vector, the tree it is building and the end position push_back read.    *)
(* score is the value returned by the latest anomalyScore call.  twins are *)
(* two separately constructed forests (used by SpecTwins only).            *)
(***************************************************************************)
VARIABLES forest, mylock, pc, jobs, i, sample, tree, end, score, twins

vars == <<forest, mylock, pc, jobs, i, sample, tree, end, score, twins>>
locals == <<pc, jobs, i, sample, tree, end>>

NoScore == [outcome |-> "none"]
NoTwins == <<>>

Live(j) == pc[j] \notin {"idle", "done"}
Quiescent == \A j \in Threads : ~Live(j)

\* Trees the running threads have still to append.
RECURSIVE Pending(_)
Pending(S) ==
  IF S = {} THEN 0
  ELSE LET j == CHOOSE k \in S : TRUE
       IN (IF Live(j) THEN jobs[j] - i[j] ELSE 0) + Pending(S \ {j})

Init ==
  /\ forest \in Forests
  /\ mylock = 0
  /\ pc = [j \in Threads |-> "idle"]
  /\ jobs = [j \in Threads |-> 0]
  /\ i = [j \in Threads |-> 0]
  /\ sample = [j \in Threads |-> <<>>]
  /\ tree = [j \in Threads |-> nullptr]
  /\ end = [j \in Threads |-> 0]
  /\ score = NoScore
  /\ twins = NoTwins

(***************************************************************************)
(* Calls made by the owner of the forest.  growForest and anomalyScore     *)
(* take no lock; the owner calls them while no grow thread is running      *)
(* (the handle returned by grow is joined first).                          *)
(***************************************************************************)
GrowForest ==
  /\ Quiescent
  /\ Len(forest.trees) + forest.forestSize <= MaxTrees
  /\ \E grown \in {growForest(forest)} : forest' = grown
  /\ score' = NoScore
  /\ UNCHANGED <<mylock, locals, twins>>

AnomalyScore(ob) ==
  /\ Quiescent
  /\ score' = anomalyScore(forest, ob)
  /\ UNCHANGED <<forest, mylock, locals, twins>>

\* grow(jobs): the thread is created with jobs captured; its locals obs and
\* sample are constructed once, before the loop (lines 167-169).
Grow(j, n) ==
  /\ pc[j] = "idle"
  /\ Len(forest.trees) + Pending(Threads) + n <= MaxTrees
  /\ pc' = [pc EXCEPT ![j] = "loop"]
  /\ jobs' = [jobs EXCEPT ![j] = n]
  /\ i' = [i EXCEPT ![j] = 0]
  /\ sample' = [sample EXCEPT ![j] = <<>>]
  /\ score' = NoScore
  /\ UNCHANGED <<forest, mylock, tree, end, twins>>

(***************************************************************************)
(* Steps of a grow thread, lines 170-178.                                  *)
(***************************************************************************)
\* Variant of the loop condition that stops one iteration early.
LoopConditionOffByOne(j) == i[j] + 1 < jobs[j]

\* for (size_t i = 0; i < jobs; i++)
LoopCondition(j) == i[j] < jobs[j]

LoopTest(j) ==
  /\ pc[j] = "loop"
  /\ IF LoopCondition(j)
     THEN /\ pc' = [pc EXCEPT ![j] = "sample"]
          /\ UNCHANGED sample
     ELSE /\ pc' = [pc EXCEPT ![j] = "done"]
          /\ sample' = [sample EXCEPT ![j] = <<>>]
  /\ UNCHANGED <<forest, mylock, jobs, i, tree, end, score, twins>>

\* Positions at which a thread calls the shared generator.
DrawPositions == {"sample", "growTree"}

\* Two threads inside generator calls at once is a data race on randomGen:
\* the state a racing call starts from is any generator state.
Racing(j) == \E k \in Threads \ {j} : pc[k] \in DrawPositions
GenSeen(j) == IF Racing(j) THEN GenStates ELSE {forest.randomGen}

Sample(j) ==
  /\ pc[j] = "sample"
  /\ \E g \in GenSeen(j) :
       \E s \in {std_sample(iota(nObs(forest)), sample[j], forest.treeSize, g)} :
          /\ sample' = [sample EXCEPT ![j] = s.out]
          /\ forest' = [forest EXCEPT !.randomGen = s.gen]
  /\ pc' = [pc EXCEPT ![j] = "growTree"]
  /\ UNCHANGED <<mylock, jobs, i, tree, end, score, twins>>

GrowTree(j) ==
  /\ pc[j] = "growTree"
  /\ \E g \in GenSeen(j) :
       \E t \in {growTree(forest, sample[j], 0, g)} :
          /\ tree' = [tree EXCEPT ![j] = [root |-> t.node]]
          /\ forest' = [forest EXCEPT !.randomGen = t.gen]
  /\ pc' = [pc EXCEPT ![j] = "lock"]
  /\ UNCHANGED <<mylock, jobs, i, sample, end, score, twins>>

\* Variant of the mutex that never blocks.
MutexAvailableAlways(j) == TRUE

\* this->mylock.lock() returns only when the mutex is free.
MutexAvailable(j) == mylock = 0

Lock(j) ==
  /\ pc[j] = "lock"
  /\ MutexAvailable(j)
  /\ mylock' = j
  /\ pc' = [pc EXCEPT ![j] = "push_back"]
  /\ UNCHANGED <<forest, jobs, i, sample, tree, end, score, twins>>

\* trees.push_back(std::move(tree)): the vector's end is read, then the
\* element is stored there and the end moved past it.
PushBack(j) ==
  /\ pc[j] = "push_back"
  /\ end' = [end EXCEPT ![j] = Len(forest.trees)]
  /\ pc' = [pc EXCEPT ![j] = "store"]
  /\ UNCHANGED <<forest, mylock, jobs, i, sample, tree, score, twins>>

StoreAt(trees, pos, t) ==
  [k \in 1..(pos + 1) |-> IF k = pos + 1 THEN t ELSE trees[k]]

Store(j) ==
  /\ pc[j] = "store"
  /\ forest' = [forest EXCEPT !.trees = StoreAt(@, end[j], tree[j])]
  /\ tree' = [tree EXCEPT ![j] = nullptr]
  /\ pc' = [pc EXCEPT ![j] = "unlock"]
  /\ UNCHANGED <<mylock, jobs, i, sample, end, score, twins>>

\* Variant of Unlock that leaves the mutex held into the next iteration.
UnlockKeepsMutex(j) ==
  /\ pc[j] = "unlock"
  /\ i' = [i EXCEPT ![j] = @ + 1]
  /\ pc' = [pc EXCEPT ![j] = "loop"]
  /\ UNCHANGED <<forest, mylock, jobs, sample, tree, end, score, twins>>

\* this->mylock.unlock(), then i++ of the for statement.
Unlock(j) ==
  /\ pc[j] = "unlock"
  /\ mylock' = 0
  /\ i' = [i EXCEPT ![j] = @ + 1]
  /\ pc' = [pc EXCEPT ![j] = "loop"]
  /\ UNCHANGED <<forest, jobs, sample, tree, end, score, twins>>

ThreadStep(j) ==
  \/ LoopTest(j)
  \/ Sample(j)
  \/ GrowTree(j)
  \/ Lock(j)
  \/ PushBack(j)
  \/ Store(j)
  \/ Unlock(j)

Next ==
  \/ GrowForest
  \/ \E ob \in Observations(forest) : AnomalyScore(ob)
  \/ \E j \in Threads, n \in 1..MaxJobs : Grow(j, n)
  \/ \E j \in Threads : ThreadStep(j)

Spec == Init /\ [][Next]_vars

\* A started thread is scheduled until it ends: weak fairness of its steps.
\* Termination does not depend on the seed nor on forestSize: the fair
\* behaviours are explored from the forests with seed 0 and forestSize 1.
InitFair == Init /\ forest.forestSize = 1 /\ forest.randomSeed = 0

FairSpec ==
  InitFair /\ [][Next]_vars /\ \A j \in Threads : WF_vars(ThreadStep(j))

(***************************************************************************)
(* Two forests constructed separately.  randomGen is a non-static member:  *)
(* instance f draws from its own generator.                                *)
(***************************************************************************)
TwinIds == 1..2

\* Variant in which the generator is shared by all instances (static).
randomGenOfShared(f) == twins[1].forest.randomGen

randomGenOf(f) == twins[f].forest.randomGen

InitTwins ==
  /\ twins \in [TwinIds -> [forest : Forests, grown : {FALSE}]]
  /\ forest = IsolationForest(1, 1, 0, 0, 0)
  /\ mylock = 0
  /\ pc = [j \in Threads |-> "idle"]
  /\ jobs = [j \in Threads |-> 0]
  /\ i = [j \in Threads |-> 0]
  /\ sample = [j \in Threads |-> <<>>]
  /\ tree = [j \in Threads |-> nullptr]
  /\ end = [j \in Threads |-> 0]
  /\ score = NoScore

GrowForestTwin(f) ==
  /\ ~twins[f].grown
  /\ twins' = [twins EXCEPT ![f] =
                 [forest |-> growForest([@.forest EXCEPT !.randomGen = randomGenOf(f)]),
                  grown |-> TRUE]]
  /\ UNCHANGED <<forest, mylock, locals, score>>

NextTwins == \E f \in TwinIds : GrowForestTwin(f)

SpecTwins == InitTwins /\ [][NextTwins]_vars

(***************************************************************************)
(* Helpers of the properties.                                              *)
(***************************************************************************)
Max(a, b) == IF a >= b THEN a ELSE b

RECURSIVE Depth(_)
Depth(node) ==
  IF node.isExNode THEN 0 ELSE 1 + Max(Depth(node.lnode), Depth(node.rnode))

RECURSIVE InternalNodes(_)
InternalNodes(node) ==
  IF node.isExNode THEN {}
  ELSE {node} \cup InternalNodes(node.lnode) \cup InternalNodes(node.rnode)

\* A leaf at depth h that still bundles several observations.
RECURSIVE HasCutLeaf(_, _, _)
HasCutLeaf(node, depth, h) ==
  IF node.isExNode THEN depth = h /\ node.nObs >= 2
  ELSE HasCutLeaf(node.lnode, depth + 1, h) \/ HasCutLeaf(node.rnode, depth + 1, h)

NoRepeats(s) == \A a, b \in 1..Len(s) : a # b => s[a] # s[b]

OwnedTrees == {forest.trees[k] : k \in 1..Len(forest.trees)}
ThreadTrees == {tree[j] : j \in {k \in Threads : tree[k] # nullptr}}
AllTrees == OwnedTrees \cup ThreadTrees

RECURSIVE SumJobs(_)
SumJobs(S) ==
  IF S = {} THEN 0
  ELSE LET j == CHOOSE k \in S : TRUE IN jobs[j] + SumJobs(S \ {j})

\* growTree's partition rule applied to the pivot stored in an internal node.
PushedLeft(this, ob, node) ==
  IF node.splitAttribute < n_num_attrs(this)
  THEN NumPushLeft(node.splitValue,
                   PyArray_GETPTR2(num_data(this), node.splitAttribute, ob))
  ELSE CharPushLeft(node.splitChar,
                    PyArray_GETPTR2(char_data(this),
                                    node.splitAttribute - n_num_attrs(this), ob))

InAppend == {"push_back", "store", "unlock"}

(***************************************************************************)
(* Properties.                                                             *)
(***************************************************************************)

\* C1: a returned anomaly score divides the summed path lengths by the
\* number of trees that were summed (the trees the forest owns).
C1_DivisorIsTreeCount ==
  (score.outcome = "value" /\ score.terms >= 1) => score.divisor = score.terms

\* C2: at every internal node of every tree, and for every observation,
\* pathLength descends left exactly when growTree's partition rule for the
\* node's pivot pushes the observation left (a missing value goes left).
C2_SameRule ==
  \A t \in AllTrees : \A node \in InternalNodes(t.root) :
    \A ob \in Observations(forest) :
      DescendsLeft(forest, ob, node) <=> PushedLeft(forest, ob, node)

\* C3: every tree a grow thread builds is grown from a sample without
\* repeated indices, of exactly treeSize indices when treeSize does not
\* exceed the number of observations, and its root records that size.
C3_GrowSamples ==
  \A j \in Threads :
    /\ pc[j] \in {"growTree", "lock", "push_back", "store"} =>
         /\ NoRepeats(sample[j])
         /\ forest.treeSize <= nObs(forest) => Len(sample[j]) = forest.treeSize
    /\ (tree[j] # nullptr /\ forest.treeSize <= nObs(forest)) =>
         tree[j].root.nObs = forest.treeSize

\* C4: at most one grow thread is between mylock.lock() and mylock.unlock().
C4_MutualExclusion ==
  Cardinality({j \in Threads : pc[j] \in InAppend}) <= 1

C4_Witness ==
  \E j, k \in Threads : j # k /\ pc[j] = "store" /\ pc[k] = "lock"

\* C5: a grow thread that is about to draw from the shared generator (in
\* std::sample or in growTree) does not hold mylock, so nothing orders the
\* draws of two threads.
C5_DrawsUnlocked ==
  \A j \in Threads : pc[j] \in DrawPositions => mylock # j

C5_Witness ==
  \E j, k \in Threads :
    /\ j # k
    /\ pc[j] \in DrawPositions
    /\ pc[k] \in DrawPositions
    /\ mylock = 0
    /\ i[j] >= 1

\* C6: under fair scheduling every running grow thread ends, having gone
\* round its loop exactly jobs times, and each of its appends adds exactly
\* its tree at the end of the collection and keeps every tree already there.
C6_Completes ==
  /\ \A j \in Threads : Live(j) ~> (pc[j] = "done" /\ i[j] = jobs[j])
  /\ [][\A j \in Threads :
          (pc[j] = "store" /\ pc'[j] = "unlock") =>
             forest'.trees = Append(forest.trees, tree[j])]_vars
  /\ [][\A j \in Threads :
          i'[j] # i[j] =>
             (pc[j] = "unlock" /\ i'[j] = i[j] + 1) \/ (pc[j] = "idle" /\ i'[j] = 0)]_vars

C6_Witness ==
  /\ \A j \in Threads : pc[j] = "done" /\ jobs[j] >= 1
  /\ \E j \in Threads : jobs[j] >= 2
  /\ Len(forest.trees) = SumJobs(Threads)

\* C7: with treeSize >= 1, maxTreeHeight is the least h with 2^h >= treeSize
\* and no node of any tree lies deeper than maxTreeHeight.
C7_HeightBound ==
  forest.treeSize >= 1 =>
    /\ 2^forest.maxTreeHeight >= forest.treeSize
    /\ forest.maxTreeHeight >= 1 => 2^(forest.maxTreeHeight - 1) < forest.treeSize
    /\ \A t \in AllTrees : Depth(t.root) <= forest.maxTreeHeight

C7_Witness ==
  /\ forest.maxTreeHeight = 2
  /\ \E t \in OwnedTrees : HasCutLeaf(t.root, 0, forest.maxTreeHeight)
  /\ \E t \in OwnedTrees : t.root.nObs > forest.treeSize

SameConstruction(a, b) ==
  /\ a.src = b.src
  /\ a.treeSize = b.treeSize
  /\ a.forestSize = b.forestSize
  /\ a.randomSeed = b.randomSeed
  /\ a.maxTreeHeight = b.maxTreeHeight

C9_EmptyForestFails ==
  (score.outcome # "none" /\ score.terms = 0) => score.outcome = "EmptyForest"

\* C10: with treeSize < 1 or treeSize > observationCount no tree is ever
\* built (construction or sampling fails with InvalidConfiguration), and no
\* tree is built from a sample of another size than treeSize.
C10_InvalidConfiguration ==
  (forest.treeSize < 1 \/ forest.treeSize > nObs(forest)) => AllTrees = {}

====
